---- MODULE Spec2Model ----
(***************************************************************************)
(* Alert dispatch of the fire/smoke detector: NotificationService and      *)
(* FlareGuardBot of notification_service.py.                               *)
(*                                                                         *)
(* One caller thread invokes send_alert / cleanup / __del__; the           *)
(* ThreadPoolExecutor(max_workers=2) runs _send_alerts_async_wrapper jobs. *)
(* Every network call (Imgur POST, CallMeBot GET, Telegram send_photo) is  *)
(* one step of the thread that executes it, with its outcome chosen by the *)
(* environment.                                                            *)
(***************************************************************************)
EXTENDS Integers, Sequences, FiniteSets, TLC

\* ---------------------------------------------------------------- bounds
MaxEvents == 3      \* send_alert calls made in one behaviour
MaxFaults == 1      \* adverse events (failures, deletions, equal clock
                    \* readings) the environment injects in one behaviour
MaxRcpt == 2        \* longest FlareGuardBot.chat_ids list explored

\* ------------------------------------------------------ program constants
max_workers == 2    \* ThreadPoolExecutor(max_workers=2)
DefaultChat == 1    \* the recipient seeded from TELEGRAM_CHAT_ID

Events == 1..MaxEvents

EnvVars == {"CALLMEBOT_API_KEY", "RECEIVER_WHATSAPP_NUMBER", "TELEGRAM_TOKEN",
            "TELEGRAM_CHAT_ID", "IMGUR_CLIENT_ID"}

VARIABLES
    env,              \* which configuration values are present (truthy)
    whatsapp_enabled, \* NotificationService.whatsapp_enabled
    telegram_bot,     \* "unset" (attribute never assigned), "None", "bot"
    chat_ids,         \* FlareGuardBot.chat_ids
    bot_initialized,  \* the session of the one FlareGuardBot.bot is entered
    clock,            \* last value datetime.now() returned, 0 = not read yet
    files,            \* names (timestamps) of the files in DETECTED_FIRES_DIR
    nCalls,           \* number of send_alert calls made so far
    image_path,       \* per call: the name save_frame returned, 0 = none
    ret,              \* per call: "none", "True", "raised"
    queue,            \* the executor's work queue (FIFO of calls)
    running,          \* the jobs a worker thread is executing
    shutdown,         \* the executor's shutdown flag
    pc,               \* per job: "none","queued","wa","get","tg","enter","send",
                      \* "done","raised"
    idx,              \* per job: position in chat_ids of the next send
    log,              \* per job: the network calls made, in order
    waOutcome,        \* per job: result of _send_whatsapp_alert
    tgOutcome,        \* per job: result of FlareGuardBot.send_alert
    loop,             \* per job: its event loop, "none", "open", "closed"
    faults            \* failures the environment may still inject

vars == <<env, whatsapp_enabled, telegram_bot, chat_ids, bot_initialized, clock,
          files, nCalls, image_path, ret, queue, running, shutdown, pc, idx,
          log, waOutcome, tgOutcome, loop, faults>>

cfgVars == <<env, whatsapp_enabled, telegram_bot, chat_ids>>
callVars == <<clock, nCalls, image_path, ret>>
jobVars == <<pc, idx, log, waOutcome, tgOutcome, loop>>

\* A network call as the log keeps it.
Call(op, thr, res, to) == [op |-> op, thr |-> thr, res |-> res, to |-> to]

\* ------------------------------------------------------- _init_services
\* mutant: any() in place of all()
whatsapp_init_any(e) == e["CALLMEBOT_API_KEY"] \/ e["RECEIVER_WHATSAPP_NUMBER"]

\* mutant: the uploader's client id is tested too
whatsapp_init_with_uploader(e) ==
    e["CALLMEBOT_API_KEY"] /\ e["RECEIVER_WHATSAPP_NUMBER"] /\ e["IMGUR_CLIENT_ID"]

\* all([getenv("CALLMEBOT_API_KEY"), getenv("RECEIVER_WHATSAPP_NUMBER")])
whatsapp_init(e) == e["CALLMEBOT_API_KEY"] /\ e["RECEIVER_WHATSAPP_NUMBER"]

\* the token branch: no token leaves the attribute unassigned; a failing
\* FlareGuardBot(...) / _init_telegram() sets it to None
telegram_init(e, setupOk) ==
    IF ~e["TELEGRAM_TOKEN"] THEN "unset"
    ELSE IF setupOk THEN "bot" ELSE "None"

\* FlareGuardBot.__init__: chat_ids = [default_chat_id] if default_chat_id else []
chat_ids_init(e) == IF e["TELEGRAM_CHAT_ID"] THEN <<DefaultChat>> ELSE <<>>

InitDynamic ==
    /\ bot_initialized = FALSE
    /\ clock = 0
    /\ files = {}
    /\ nCalls = 0
    /\ image_path = [c \in Events |-> 0]
    /\ ret = [c \in Events |-> "none"]
    /\ queue = <<>>
    /\ running = {}
    /\ shutdown = FALSE
    /\ pc = [c \in Events |-> "none"]
    /\ idx = [c \in Events |-> 0]
    /\ log = [c \in Events |-> <<>>]
    /\ waOutcome = [c \in Events |-> "none"]
    /\ tgOutcome = [c \in Events |-> "none"]
    /\ loop = [c \in Events |-> "none"]

\* The service right after NotificationService(config) returned.
Init ==
    /\ env \in [EnvVars -> BOOLEAN]
    /\ whatsapp_enabled = whatsapp_init(env)
    /\ \E setupOk \in BOOLEAN : telegram_bot = telegram_init(env, setupOk)
    /\ chat_ids = IF telegram_bot = "bot" THEN chat_ids_init(env) ELSE <<>>
    /\ InitDynamic
    /\ faults = MaxFaults

\* A fully configured service whose bot holds any recipient list: chat_ids is
\* a plain list attribute of FlareGuardBot, and send_alert iterates over
\* whatever it holds.  Every send may fail.
InitBot ==
    /\ env = [v \in EnvVars |-> TRUE]
    /\ whatsapp_enabled = whatsapp_init(env)
    /\ telegram_bot = telegram_init(env, TRUE)
    /\ \E n \in 0..MaxRcpt : chat_ids = [i \in 1..n |-> i]
    /\ InitDynamic
    /\ faults = MaxRcpt

\* ------------------------------------------------------------ send_alert
\* mutant: the wrapper is called directly instead of being handed to the pool
executor_submit_inline(c) ==
    /\ ~shutdown
    /\ log' = [log EXCEPT ![c] =
                 IF whatsapp_enabled /\ env["IMGUR_CLIENT_ID"]
                 THEN <<Call("upload", "caller", "ok", 0),
                        Call("get", "caller", "200", 0)>>
                 ELSE <<>>]
    /\ pc' = [pc EXCEPT ![c] = "done"]
    /\ UNCHANGED <<queue, idx, waOutcome, tgOutcome, loop>>

\* self.executor.submit(self._send_alerts_async_wrapper, image_path, detection):
\* the work item joins the queue; after shutdown() submit raises RuntimeError
executor_submit(c) ==
    /\ IF shutdown
       THEN UNCHANGED <<queue, pc>>
       ELSE /\ queue' = Append(queue, c)
            /\ pc' = [pc EXCEPT ![c] = "queued"]
    /\ UNCHANGED <<idx, log, waOutcome, tgOutcome, loop>>

\* send_alert(frame, detection): save_frame, submit, return True.  The file
\* name is datetime.now() formatted to the microsecond, so the reading itself
\* stands for the name; the clock may not have advanced since the last
\* reading.  cv2.imwrite writes the file (over an existing one of that name)
\* or raises.
send_alert ==
    /\ nCalls < MaxEvents
    /\ LET c == nCalls + 1 IN
       \E t \in {clock, clock + 1} \ {0}, saved \in BOOLEAN :
          /\ (t = clock \/ ~saved) => faults > 0
          /\ (t = clock /\ ~saved) => faults > 1
          /\ faults' = faults - (IF t = clock THEN 1 ELSE 0)
                               - (IF saved THEN 0 ELSE 1)
          /\ clock' = t
          /\ nCalls' = c
          /\ IF saved
             THEN /\ files' = files \cup {t}
                  /\ image_path' = [image_path EXCEPT ![c] = t]
                  /\ executor_submit(c)
                  /\ ret' = [ret EXCEPT ![c] =
                                IF shutdown THEN "raised" ELSE "True"]
             ELSE /\ ret' = [ret EXCEPT ![c] = "raised"]
                  /\ UNCHANGED <<files, image_path, queue, jobVars>>
    /\ UNCHANGED <<cfgVars, bot_initialized, running, shutdown>>

\* ------------------------------------------------------------ worker pool
\* mutant: the worker threads stop at shutdown without draining the queue
worker_start_until_shutdown ==
    /\ ~shutdown
    /\ queue # <<>>
    /\ Cardinality(running) < max_workers
    /\ running' = running \cup {Head(queue)}
    /\ queue' = Tail(queue)
    /\ pc' = [pc EXCEPT ![Head(queue)] = "wa"]
    /\ UNCHANGED <<cfgVars, bot_initialized, callVars, files, shutdown, idx, log,
                   waOutcome, tgOutcome, loop, faults>>

\* mutant: a thread is spawned for every work item, however many are running
worker_start_unbounded ==
    /\ queue # <<>>
    /\ running' = running \cup {Head(queue)}
    /\ queue' = Tail(queue)
    /\ pc' = [pc EXCEPT ![Head(queue)] = "wa"]
    /\ UNCHANGED <<cfgVars, bot_initialized, callVars, files, shutdown, idx, log,
                   waOutcome, tgOutcome, loop, faults>>

\* an idle worker thread takes the oldest work item
worker_start ==
    /\ queue # <<>>
    /\ Cardinality(running) < max_workers
    /\ running' = running \cup {Head(queue)}
    /\ queue' = Tail(queue)
    /\ pc' = [pc EXCEPT ![Head(queue)] = "wa"]
    /\ UNCHANGED <<cfgVars, bot_initialized, callVars, files, shutdown, idx, log,
                   waOutcome, tgOutcome, loop, faults>>

\* where a job goes next; "done" and "raised" end it and free its worker
Goto(c, where) ==
    /\ pc' = [pc EXCEPT ![c] = where]
    /\ running' = IF where \in {"done", "raised"} THEN running \ {c} ELSE running

\* ------------------------------------------ _send_whatsapp_alert, upload
UploadFailures == {"exc", "500", "malformed"}

\* mutant: the `if not image_url` test is missing
whatsapp_proceeds_always(url) == TRUE

\* `if not image_url: ... return False`
whatsapp_proceeds(url) == url = "ok"

\* `if self.whatsapp_enabled: self._send_whatsapp_alert(...)` up to the GET:
\* upload_image returns None without a request when the client id is absent
\* or the file cannot be opened, and None after a failed request
step_whatsapp(c) ==
    /\ pc[c] = "wa"
    /\ c \in running
    /\ IF ~whatsapp_enabled
       THEN /\ Goto(c, "tg")
            /\ UNCHANGED <<log, waOutcome, faults>>
       ELSE \E url \in {"ok", "noreq"} \cup UploadFailures :
               /\ (url = "noreq") <=>
                     (~env["IMGUR_CLIENT_ID"] \/ image_path[c] \notin files)
               /\ (url \in UploadFailures) => faults > 0
               /\ faults' = IF url \in UploadFailures THEN faults - 1 ELSE faults
               /\ log' = IF url = "noreq" THEN log
                         ELSE [log EXCEPT ![c] =
                                  Append(@, Call("upload", "worker", url, 0))]
               /\ IF whatsapp_proceeds(url)
                  THEN Goto(c, "get") /\ UNCHANGED waOutcome
                  ELSE /\ Goto(c, "tg")
                       /\ waOutcome' = [waOutcome EXCEPT ![c] = "False"]
    /\ UNCHANGED <<cfgVars, bot_initialized, callVars, files, queue, shutdown, idx,
                   tgOutcome, loop>>

\* --------------------------------------------- _send_whatsapp_alert, GET
GetFailures == {"204", "500", "exc"}

\* mutant: any 2xx status counts as delivered
whatsapp_delivered_2xx(res) == res \in {"200", "204"}

\* `if response.status_code == 200: ... return True`, else `return False`
whatsapp_delivered(res) == res = "200"

\* mutant: the try/except around requests.get is missing
get_continues_uncaught(res) == IF res = "exc" THEN "raised" ELSE "tg"

\* mutant: a GET that did not return 200 is tried again
get_continues_retry(res) == IF res = "200" THEN "tg" ELSE "get"

\* the wrapper goes on to the Telegram test whatever the GET did
get_continues(res) == "tg"

\* requests.get(url, timeout=15); status_code == 200 is the only success
step_get(c) ==
    /\ pc[c] = "get"
    /\ c \in running
    /\ \E res \in {"200"} \cup GetFailures :
          /\ (res \in GetFailures) => faults > 0
          /\ faults' = IF res \in GetFailures THEN faults - 1 ELSE faults
          /\ log' = [log EXCEPT ![c] = Append(@, Call("get", "worker", res, 0))]
          /\ waOutcome' = [waOutcome EXCEPT ![c] =
                          IF whatsapp_delivered(res) THEN "True" ELSE "False"]
          /\ Goto(c, get_continues(res))
    /\ UNCHANGED <<cfgVars, bot_initialized, callVars, files, queue, shutdown, idx,
                   tgOutcome, loop>>

\* ------------------------------- the Telegram branch of the wrapper
\* mutant: loop.close() is skipped when the call did not return True
loop_after_call_leaky(outcome) == IF outcome = "True" THEN "closed" ELSE "open"

\* run_until_complete returned (_send_telegram_alert catches every exception
\* of the bot's send_alert), so the wrapper goes on to loop.close()
loop_after_call(outcome) == "closed"

\* `if self.telegram_bot:` raises AttributeError when no token was set; with a
\* bot the job opens its own loop and FlareGuardBot.send_alert tests and reads
\* the file
step_telegram(c) ==
    /\ pc[c] = "tg"
    /\ c \in running
    /\ CASE telegram_bot = "unset" ->
              Goto(c, "raised") /\ UNCHANGED <<idx, tgOutcome, loop>>
         [] telegram_bot = "None" ->
              Goto(c, "done") /\ UNCHANGED <<idx, tgOutcome, loop>>
         [] OTHER ->
              IF image_path[c] \notin files
              THEN /\ tgOutcome' = [tgOutcome EXCEPT ![c] = "False"]
                   /\ loop' = [loop EXCEPT ![c] = loop_after_call("False")]
                   /\ Goto(c, "done")
                   /\ UNCHANGED idx
              ELSE IF chat_ids = <<>>
              THEN /\ tgOutcome' = [tgOutcome EXCEPT ![c] = "True"]
                   /\ loop' = [loop EXCEPT ![c] = loop_after_call("True")]
                   /\ Goto(c, "done")
                   /\ UNCHANGED idx
              ELSE /\ loop' = [loop EXCEPT ![c] = "open"]
                   /\ idx' = [idx EXCEPT ![c] = 1]
                   /\ Goto(c, "enter")
                   /\ UNCHANGED tgOutcome
    /\ UNCHANGED <<cfgVars, bot_initialized, callVars, files, queue, shutdown,
                   log, waOutcome, faults>>

\* `async with self.bot:` on the way in, for the current recipient:
\* Bot.__aenter__ initialises the session of the bot object all jobs share
\* (nothing to do when it is initialised already)
step_enter(c) ==
    /\ pc[c] = "enter"
    /\ c \in running
    /\ bot_initialized' = TRUE
    /\ Goto(c, "send")
    /\ UNCHANGED <<cfgVars, callVars, files, queue, shutdown, idx, log,
                   waOutcome, tgOutcome, loop, faults>>

\* mutant: the list is walked from its end
recipient_reversed(i) == chat_ids[Len(chat_ids) + 1 - i]

\* `for chat_id in self.chat_ids`: the i-th iteration's chat_id
recipient(i) == chat_ids[i]

\* mutant: the try/except is around the loop, not inside it
send_continues_abort(res) == res = "ok"

\* the try/except inside `for chat_id in self.chat_ids` keeps the loop going
send_continues(res) == TRUE

\* `await self.bot.send_photo(chat_id=...)` and the way out of the with
\* block: Bot.__aexit__ shuts the session down.  A request made on a session
\* that another job has shut down in the meantime raises ("closed") unless it
\* was on its way already; any request may fail for the network's reasons
\* ("exc").  After the last recipient send_alert returns True and the job
\* closes its loop.  An exception that left the for loop would be caught by
\* _send_telegram_alert.
step_send(c) ==
    /\ pc[c] = "send"
    /\ c \in running
    /\ \E res \in {"ok", "exc", "closed"} :
          /\ (res = "exc") => faults > 0
          /\ (res = "closed") => ~bot_initialized
          /\ faults' = IF res = "exc" THEN faults - 1 ELSE faults
          /\ log' = [log EXCEPT ![c] =
                Append(@, Call("send_photo", "worker", res, recipient(idx[c])))]
          /\ bot_initialized' = FALSE
          /\ IF send_continues(res) /\ idx[c] < Len(chat_ids)
             THEN /\ idx' = [idx EXCEPT ![c] = @ + 1]
                  /\ pc' = [pc EXCEPT ![c] = "enter"]
                  /\ UNCHANGED <<running, tgOutcome, loop>>
             ELSE /\ tgOutcome' = [tgOutcome EXCEPT ![c] =
                                      IF send_continues(res) THEN "True" ELSE "raised"]
                  /\ loop' = [loop EXCEPT ![c] =
                                 loop_after_call(IF send_continues(res)
                                                 THEN "True" ELSE "False")]
                  /\ Goto(c, "done")
                  /\ UNCHANGED idx
    /\ UNCHANGED <<cfgVars, callVars, files, queue, shutdown, waOutcome>>

\* ------------------------------------------------------ cleanup, __del__
\* mutant: shutdown(wait=True)
cleanup_wait ==
    /\ queue = <<>> /\ running = {}
    /\ shutdown' = TRUE
    /\ UNCHANGED <<cfgVars, bot_initialized, callVars, files, queue, running,
                   jobVars, faults>>

\* mutant: cleanup also empties the storage directory
cleanup_purge ==
    /\ shutdown' = TRUE
    /\ files' = {}
    /\ UNCHANGED <<cfgVars, bot_initialized, callVars, queue, running,
                   jobVars, faults>>

\* self.executor.shutdown(wait=False): only the flag is set; queued and
\* running work items are left to the worker threads
cleanup ==
    /\ shutdown' = TRUE
    /\ UNCHANGED <<cfgVars, bot_initialized, callVars, files, queue, running,
                   jobVars, faults>>

\* __del__ runs cleanup once nothing refers to the service any more: the
\* caller dropped it and no work item holds its bound method
del_service ==
    /\ queue = <<>> /\ running = {}
    /\ shutdown' = TRUE
    /\ UNCHANGED <<cfgVars, bot_initialized, callVars, files, queue, running,
                   jobVars, faults>>

\* ------------------------------------------------------------ environment
\* something outside the service removes a stored frame that a job has yet
\* to open
external_delete ==
    /\ faults > 0
    /\ \E c \in Events :
          /\ pc[c] \in {"queued", "wa", "tg"}
          /\ image_path[c] \in files
          /\ files' = files \ {image_path[c]}
    /\ faults' = faults - 1
    /\ UNCHANGED <<cfgVars, bot_initialized, callVars, queue, running, shutdown, jobVars>>

Next ==
    \/ send_alert
    \/ worker_start
    \/ \E c \in Events : step_whatsapp(c)
    \/ \E c \in Events : step_get(c)
    \/ \E c \in Events : step_telegram(c)
    \/ \E c \in Events : step_enter(c)
    \/ \E c \in Events : step_send(c)
    \/ cleanup
    \/ del_service
    \/ external_delete

Spec == Init /\ [][Next]_vars

\* what the pool's worker threads can do next
worker_step ==
    \/ worker_start
    \/ \E c \in Events :
          \/ step_whatsapp(c) \/ step_get(c) \/ step_telegram(c)
          \/ step_enter(c) \/ step_send(c)

\* The configurations that differ in what a job does: TELEGRAM_CHAT_ID is
\* read only in the token branch of _init_services and IMGUR_CLIENT_ID only
\* by upload_image, which runs only when WhatsApp is enabled; a value that
\* nothing reads is taken absent.
InitFair ==
    /\ Init
    /\ env["TELEGRAM_CHAT_ID"] => env["TELEGRAM_TOKEN"]
    /\ env["IMGUR_CLIENT_ID"] => whatsapp_enabled

\* The pool does not stop while it has something to do: some worker thread
\* gets to run and the network call it waits for returns (each has a
\* timeout).  The caller is under no obligation to call anything.
FairSpec ==
    /\ InitFair /\ [][Next]_vars
    /\ WF_vars(worker_step)

\* FlareGuardBot.send_alert over arbitrary recipient lists, with as many
\* alerts as the pool runs side by side
NextBot ==
    \/ nCalls < max_workers /\ send_alert
    \/ worker_start
    \/ \E c \in Events : step_whatsapp(c)
    \/ \E c \in Events : step_get(c)
    \/ \E c \in Events : step_telegram(c)
    \/ \E c \in Events : step_enter(c)
    \/ \E c \in Events : step_send(c)
    \/ cleanup
    \/ del_service
    \/ external_delete

SpecBot == InitBot /\ [][NextBot]_vars

\* ------------------------------------------------------------- vocabulary
Terminated(c) == pc[c] \in {"done", "raised"}
Calls(c, op) == SelectSeq(log[c], LAMBDA r : r.op = op)
NetworkCalls(c) == Len(log[c])
InQueue(c) == \E i \in 1..Len(queue) : queue[i] = c

\* the per-job state: everything a job reads or writes of its own
JobState(c) == <<pc[c], idx[c], log[c], waOutcome[c], tgOutcome[c], loop[c]>>

\* the recipients FlareGuardBot.send_alert has tried for job c, in order
SendsTo(c) ==
    LET sends == Calls(c, "send_photo") IN [i \in 1..Len(sends) |-> sends[i].to]

\* cv2.imwrite raised inside the call's save_frame
FrameWriteFailed(c) == ret[c] = "raised" /\ image_path[c] = 0

NoCredentials ==
    /\ ~env["CALLMEBOT_API_KEY"]
    /\ ~env["RECEIVER_WHATSAPP_NUMBER"]
    /\ ~env["TELEGRAM_TOKEN"]

C2_Invoked ==
    \A c \in Events : Terminated(c) =>
       /\ (waOutcome[c] # "none") <=> whatsapp_enabled
       /\ (tgOutcome[c] # "none") <=> (telegram_bot = "bot")

C2_OtherJobsUntouched ==
    \A c \in Events : log'[c] # log[c] =>
       \A d \in Events \ {c} : JobState(d)' = JobState(d)

\* C2: cross-channel failure isolation: every job that has ended invoked
\* each enabled adapter, whatever the other adapter's upload or delivery
\* call did (the WhatsApp adapter returned iff WhatsApp is enabled, the bot
\* adapter was run iff a bot is configured), and a step that completes a
\* network call of one job leaves the state of every other job as it was.
C2_CrossChannelIsolation == []C2_Invoked /\ [][C2_OtherJobsUntouched]_vars

\* a job whose WhatsApp GET raised still ran the bot adapter, which sent
C2_Witness ==
    \E c \in Events :
       /\ pc[c] = "done"
       /\ waOutcome[c] = "False"
       /\ \E i \in 1..Len(log[c]) : log[c][i].op = "get" /\ log[c][i].res = "exc"
       /\ tgOutcome[c] = "True"
       /\ Len(Calls(c, "send_photo")) = 1

C3_Attempts ==
    \A c \in Events :
       /\ pc[c] \in {"enter", "send"} =>
             /\ tgOutcome[c] = "none"
             /\ SendsTo(c) = SubSeq(chat_ids, 1, idx[c] - 1)
       /\ tgOutcome[c] \in {"none", "True", "False"}
       /\ tgOutcome[c] = "True" => SendsTo(c) = chat_ids
       /\ tgOutcome[c] = "False" => SendsTo(c) = <<>>

C3_Completes ==
    \A c \in Events :
       /\ (pc[c] = "tg" /\ pc'[c] # "tg" /\ telegram_bot = "bot"
             /\ image_path[c] \in files) =>
                (pc'[c] = "enter" \/ tgOutcome'[c] = "True")
       /\ (pc[c] = "send" /\ pc'[c] \notin {"enter", "send"}) =>
             tgOutcome'[c] = "True"

\* C3: per-recipient failure isolation: whichever sends fail, while
\* FlareGuardBot.send_alert runs it has tried exactly the recipients before
\* the current one, it never ends by an exception, it returns True only
\* after trying every recipient of chat_ids in order, and it returns True
\* whenever the image file existed when it looked (False, with no send, only
\* when the file was missing).
C3_RecipientIsolation == []C3_Attempts /\ [][C3_Completes]_vars

\* two or more recipients, the sends to the first and to the last failed,
\* every recipient was tried and send_alert returned True
C3_Witness ==
    \E c \in Events :
       /\ Len(chat_ids) >= 2
       /\ tgOutcome[c] = "True"
       /\ Calls(c, "send_photo")[1].res = "exc"
       /\ Calls(c, "send_photo")[Len(chat_ids)].res = "exc"
       /\ SendsTo(c) = chat_ids

\* C4: any two events passed to send_alert get distinct persisted filenames,
\* two events whose save_frame calls read the same clock value included.
C4_DistinctFilenames ==
    \A c, d \in Events :
       (c # d /\ image_path[c] # 0 /\ image_path[d] # 0) =>
          image_path[c] # image_path[d]

\* C5: a channel with a missing credential is never enabled, whatever the
\* other channel's credentials: without CALLMEBOT_API_KEY or without
\* RECEIVER_WHATSAPP_NUMBER whatsapp_enabled is false and no job makes an
\* upload or a GET; without TELEGRAM_TOKEN there is no bot and no job makes a
\* Telegram send.
C5_MissingCredentialDisables ==
    /\ (~env["CALLMEBOT_API_KEY"] \/ ~env["RECEIVER_WHATSAPP_NUMBER"]) =>
          /\ ~whatsapp_enabled
          /\ \A c \in Events : Calls(c, "upload") = <<>> /\ Calls(c, "get") = <<>>
    /\ ~env["TELEGRAM_TOKEN"] =>
          /\ telegram_bot # "bot"
          /\ \A c \in Events : Calls(c, "send_photo") = <<>>

\* only the WhatsApp number is missing (the Imgur client id is there): a job
\* ended having made its one network call, the Telegram send
C5_Witness ==
    /\ env["CALLMEBOT_API_KEY"] /\ ~env["RECEIVER_WHATSAPP_NUMBER"]
    /\ env["IMGUR_CLIENT_ID"] /\ env["TELEGRAM_TOKEN"]
    /\ \E c \in Events :
          /\ pc[c] = "done"
          /\ Len(Calls(c, "send_photo")) = 1
          /\ NetworkCalls(c) = 1

C6_Accepted ==
    /\ \A c \in Events : ret[c] = "True" =>
          /\ image_path[c] # 0
          /\ InQueue(c) \/ c \in running \/ Terminated(c)
          /\ InQueue(c) <=> pc[c] = "queued"
    /\ Cardinality(running) <= max_workers
    /\ queue # <<>> /\ ~ENABLED worker_start => Cardinality(running) = max_workers

\* C6: no accepted event is dropped: an event whose send_alert returned True
\* has had its frame persisted and its job is in the queue, on a worker or
\* ended; never more than max_workers jobs are on workers and a job waits in
\* the queue only while all workers are busy; and with a pool that keeps
\* running and network calls that return, every accepted event's job
\* eventually runs to its end (send_alert is called MaxEvents times at most,
\* so from some point on every accepted job has ended).
C6_NoEventDropped ==
    /\ []C6_Accepted
    /\ <>[](\A c \in Events : ret[c] = "True" => Terminated(c))

\* as many events accepted, frames persisted, as there are workers and one
\* more: the workers are busy and a job waits in the queue
C6_Witness ==
    /\ Cardinality(running) = max_workers
    /\ Len(queue) >= 1
    /\ \A c \in 1..(max_workers + 1) : ret[c] = "True" /\ image_path[c] # 0

\* C7: with no credentials for any channel every send_alert call returns
\* True, its frame is persisted and its job makes zero network calls.  (A
\* call whose frame write itself fails is set aside: that is the one failure
\* a caller is meant to see.)
C7_NoCredentials ==
    NoCredentials =>
       \A c \in 1..nCalls :
          ~FrameWriteFailed(c) =>
             /\ ret[c] = "True"
             /\ image_path[c] # 0
             /\ NetworkCalls(c) = 0

\* C8: a failed upload (no client id, transport error, non-2xx status,
\* malformed body) makes upload_image return a failure value without raising:
\* the job goes on, the WhatsApp adapter's outcome is False and no GET is
\* issued for the event; a GET is only ever issued after a successful upload.
C8_UploadFailureSkipsGet ==
    \A c \in Events :
       LET ups == Calls(c, "upload")
           uploaded == ups # <<>> /\ ups[Len(ups)].res = "ok"
       IN  /\ Calls(c, "get") # <<>> =>
                /\ uploaded
                /\ log[c][1].op = "upload"
           /\ (whatsapp_enabled /\ ~uploaded
                 /\ pc[c] \in {"get", "tg", "enter", "send", "done", "raised"}) =>
                /\ pc[c] # "get"
                /\ waOutcome[c] = "False"
                /\ Calls(c, "get") = <<>>
                /\ pc[c] = "raised" => telegram_bot = "unset"

\* an upload answered with a malformed body: no GET, outcome False, job done
C8_Witness ==
    \E c \in Events :
       /\ pc[c] = "done"
       /\ Calls(c, "upload") # <<>>
       /\ Calls(c, "upload")[1].res = "malformed"
       /\ waOutcome[c] = "False"
       /\ Calls(c, "get") = <<>>

C9_CleanupStep ==
    /\ cleanup => (queue' = queue /\ running' = running /\ pc' = pc)
    /\ (shutdown /\ (cleanup \/ del_service)) => UNCHANGED vars

\* C9: cleanup() can be invoked in any state and never waits: it is always
\* enabled, leaves the queue and the running jobs as they are, and invoked on
\* a service already cleaned up (by cleanup or by __del__) changes nothing.
C9_CleanupIdempotent ==
    /\ [](ENABLED cleanup /\ (shutdown => ENABLED (cleanup /\ UNCHANGED vars)))
    /\ [][C9_CleanupStep]_vars

\* cleaned up while one job was on a worker and another waited in the queue
C9_Witness ==
    /\ shutdown
    /\ queue # <<>>
    /\ running # {}

\* C10: the only failure send_alert surfaces is a frame-persistence failure:
\* in every reachable state, after cleanup() too, a send_alert call whose
\* frame was persisted has enqueued its job and returned True.
C10_OnlyPersistenceFailureSurfaces ==
    \A c \in 1..nCalls :
       image_path[c] # 0 => (ret[c] = "True" /\ pc[c] # "none")

\* C12: no failure propagates past the job boundary: under every enablement
\* configuration, TELEGRAM_TOKEN absent included, and every combination of
\* failed network calls, no _send_alerts_async_wrapper job ends by an
\* exception that escapes it.
C12_NoFailureEscapesJob ==
    \A c \in Events : pc[c] # "raised"

\* the jobs a worker executes are those between their start and their end
Executing == {c \in Events : pc[c] \in {"wa", "get", "tg", "enter", "send"}}

C14_AtMostTwo ==
    /\ running = Executing
    /\ Cardinality(Executing) <= 2
    /\ \A c \in Events : pc[c] = "queued" <=> InQueue(c)

C14_QueuedThenStarted ==
    \A c \in Events :
       /\ (pc[c] = "none" /\ pc'[c] # "none") =>
             /\ pc'[c] = "queued"
             /\ queue' = Append(queue, c)
             /\ running' = running
       /\ (pc[c] = "queued" /\ pc'[c] # "queued") =>
             /\ Cardinality(Executing) < 2
             /\ c = Head(queue)
             /\ pc'[c] = "wa"
             /\ Executing' = Executing \cup {c}
       /\ (pc[c] = "queued" /\ Cardinality(Executing) = 2) => pc'[c] = "queued"

\* C14: bounded concurrency: in every reachable state at most 2 jobs are
\* executing; a submitted job always enters the queue first, and a queued job
\* leaves the queue (oldest first) only in a step taken while fewer than 2
\* jobs are executing, so a job submitted while both workers are busy stays
\* queued until a running job has ended.
C14_BoundedConcurrency == []C14_AtMostTwo /\ [][C14_QueuedThenStarted]_vars

\* the third job, submitted behind two others, is on a worker after the
\* first one ended while the second is still executing
C14_Witness ==
    /\ pc[1] = "done"
    /\ 2 \in Executing
    /\ 3 \in Executing
    /\ NetworkCalls(1) >= 1

\* C15 as stated: a channel is enabled if and only if its credentials were
\* present at construction, in every reachable state.
C15_EnabledIffCredentials ==
    /\ whatsapp_enabled <=>
          (env["CALLMEBOT_API_KEY"] /\ env["RECEIVER_WHATSAPP_NUMBER"])
    /\ (telegram_bot = "bot") <=> env["TELEGRAM_TOKEN"]

C15_DecidedAtConstruction ==
    /\ whatsapp_enabled <=>
          (env["CALLMEBOT_API_KEY"] /\ env["RECEIVER_WHATSAPP_NUMBER"])
    /\ (telegram_bot = "bot") => env["TELEGRAM_TOKEN"]
    /\ env["TELEGRAM_TOKEN"] => telegram_bot \in {"bot", "None"}
    /\ ~env["TELEGRAM_TOKEN"] => telegram_bot = "unset"

C15_NeverChanges ==
    /\ whatsapp_enabled' = whatsapp_enabled
    /\ telegram_bot' = telegram_bot
    /\ chat_ids' = chat_ids
    /\ env' = env

\* C15 (amended): WhatsApp is enabled if and only if CALLMEBOT_API_KEY and
\* RECEIVER_WHATSAPP_NUMBER were both present at construction (the uploader's
\* client id plays no part); the Telegram bot is enabled only if
\* TELEGRAM_TOKEN was present, and with the token present it is either
\* enabled or, its setup having raised, None; no later step (send_alert, a
\* job, a failed call, cleanup, __del__) changes whatsapp_enabled or the bot.
C15_EnablementInvariant ==
    []C15_DecidedAtConstruction /\ [][C15_NeverChanges]_vars

\* WhatsApp enabled without a client id and Telegram disabled with its token
\* present; a job has failed its WhatsApp delivery and cleanup has run
C15_Witness ==
    /\ whatsapp_enabled /\ ~env["IMGUR_CLIENT_ID"]
    /\ env["TELEGRAM_TOKEN"] /\ telegram_bot = "None"
    /\ shutdown
    /\ \E c \in Events : pc[c] = "done" /\ waOutcome[c] = "False"

\* C16: whenever the bot adapter is enabled its recipient list holds at least
\* the default recipient, and every job whose bot adapter ran on an existing
\* image (FlareGuardBot.send_alert got past its file test and returned) made
\* at least one send attempt.
C16_DefaultRecipientSeeded ==
    telegram_bot = "bot" =>
       /\ \E i \in 1..Len(chat_ids) : chat_ids[i] = DefaultChat
       /\ \A c \in Events :
             tgOutcome[c] = "True" => Len(Calls(c, "send_photo")) >= 1

\* C11: no mutable state is shared between jobs that run at the same time:
\* a job that has entered the session of FlareGuardBot.bot finds it entered
\* when it sends, whatever another job has done in between, and no send of a
\* job fails because of another job's leaving the session.
C11_NoSharedMutableState ==
    \A c \in Events :
       /\ pc[c] = "send" => bot_initialized
       /\ \A i \in 1..Len(log[c]) : log[c][i].res # "closed"

C13_LoopState ==
    \A c \in Events :
       /\ loop[c] = "open" <=> pc[c] \in {"enter", "send"}
       /\ Terminated(c) => loop[c] # "open"
       /\ tgOutcome[c] # "none" <=> loop[c] = "closed"
       /\ loop[c] # "none" => telegram_bot = "bot"

C13_LoopStep ==
    \A c \in Events : loop'[c] # loop[c] =>
       /\ c \in running /\ pc[c] \in {"tg", "send"}
       /\ loop[c] # "closed"
       /\ loop'[c] # "none"
       /\ loop[c] = "open" => (loop'[c] = "closed" /\ Terminated(c)')
       /\ \A d \in Events \ {c} : loop'[d] = loop[d]

\* C13: the event loop of a Telegram invocation: a job's loop is created by
\* that job's own Telegram branch, is open exactly while the job is inside
\* FlareGuardBot.send_alert, is closed in the step that ends the call
\* whatever the call's sends did (failed, raised inside the bot, image
\* missing), is never opened again, and no step of a job touches the loop of
\* another job; no job that has ended has left a loop open.
C13_LoopLifecycle == []C13_LoopState /\ [][C13_LoopStep]_vars

\* a job whose send raised has ended with its loop closed while another job
\* is inside its Telegram call on an open loop of its own
C13_Witness ==
    \E c, d \in Events :
       /\ c # d
       /\ pc[c] = "done" /\ loop[c] = "closed"
       /\ Calls(c, "send_photo") # <<>>
       /\ Calls(c, "send_photo")[1].res = "exc"
       /\ loop[d] = "open"

\* the position in a job's log of its first call of one of the given kinds,
\* 0 when there is none
FirstCall(c, ops) ==
    IF \E i \in 1..Len(log[c]) : log[c][i].op \in ops
    THEN CHOOSE i \in 1..Len(log[c]) :
            /\ log[c][i].op \in ops
            /\ \A j \in 1..(i - 1) : log[c][j].op \notin ops
    ELSE 0

\* the Telegram branch of job c has been entered
TelegramStarted(c) ==
    \/ pc[c] \in {"enter", "send"}
    \/ loop[c] # "none"
    \/ tgOutcome[c] # "none"
    \/ Calls(c, "send_photo") # <<>>

C17_AdapterOrder ==
    \A c \in Events :
       /\ pc[c] \in {"wa", "get"} => ~TelegramStarted(c)
       /\ (TelegramStarted(c) /\ whatsapp_enabled) => waOutcome[c] # "none"
       /\ \A i, j \in 1..Len(log[c]) :
             (i < j /\ log[c][i].op = "send_photo") => log[c][j].op = "send_photo"
       /\ FirstCall(c, {"get"}) # 0 =>
             /\ FirstCall(c, {"upload"}) = 1
             /\ FirstCall(c, {"get"}) = 2

C17_RecipientOrder ==
    \A c \in Events :
       /\ SendsTo(c) = SubSeq(chat_ids, 1, Len(SendsTo(c)))
       /\ pc[c] \in {"enter", "send"} => Len(SendsTo(c)) = idx[c] - 1

\* C17: ordering within a job: the WhatsApp adapter, upload included, has
\* returned before the Telegram branch starts (no upload or GET follows a
\* Telegram send, and while the job is in the WhatsApp adapter nothing of the
\* Telegram branch has happened), and the bot adapter's sends are made one at
\* a time in the order of chat_ids: the sends made so far are to a prefix of
\* the list, and the send to a recipient is begun only when the sends to all
\* recipients before it have finished.
C17_OrderWithinJob == C17_AdapterOrder /\ C17_RecipientOrder

\* a job made upload, GET and then the sends to both recipients of a
\* two-element list, the first of which failed
C17_Witness ==
    \E c \in Events :
       /\ Len(chat_ids) = 2
       /\ pc[c] = "done"
       /\ Len(log[c]) = 4
       /\ log[c][1].op = "upload" /\ log[c][2].op = "get"
       /\ log[c][3].res = "exc"
       /\ SendsTo(c) = chat_ids

\* how many sends job c has made to recipient r
SendCount(c, r) ==
    Len(SelectSeq(log[c], LAMBDA x : x.op = "send_photo" /\ x.to = r))

\* how often r stands in the recipient list
Listed(r) == Cardinality({i \in 1..Len(chat_ids) : chat_ids[i] = r})

C18_SingleAttempt ==
    \A c \in Events :
       /\ Len(Calls(c, "upload")) <= 1
       /\ Len(Calls(c, "get")) <= 1
       /\ \A r \in 1..MaxRcpt : SendCount(c, r) <= Listed(r) /\ SendCount(c, r) <= 1
       /\ Cardinality({i \in 1..Len(queue) : queue[i] = c}) <= 1
       /\ InQueue(c) => (c \notin running /\ log[c] = <<>>)

C18_NoRequeue ==
    \A c \in Events :
       /\ pc[c] \notin {"none", "queued"} => pc'[c] # "queued"
       /\ pc'[c] = "wa" => pc[c] \in {"wa", "queued"}
       /\ Terminated(c) => (pc'[c] = pc[c] /\ log'[c] = log[c] /\ c \notin running')
       /\ \A i \in 1..Len(log[c]) : Len(log'[c]) >= i /\ log'[c][i] = log[c][i]

\* C18: no retries and no requeueing: for every event at most one upload, at
\* most one GET and at most one send per recipient are ever made, failed
\* ones included; a job is in the queue at most once, a job that has left
\* the queue never returns to it nor starts over, and a job that has ended
\* makes no further call.
C18_NoRetries == []C18_SingleAttempt /\ [][C18_NoRequeue]_vars

\* a job has ended after a failed GET and a failed send to the first of two
\* recipients: one upload, one GET, one send to each recipient
C18_Witness ==
    \E c \in Events :
       /\ pc[c] = "done"
       /\ Len(chat_ids) = 2
       /\ Len(Calls(c, "get")) = 1 /\ Calls(c, "get")[1].res = "500"
       /\ waOutcome[c] = "False"
       /\ SendCount(c, 1) = 1 /\ SendCount(c, 2) = 1
       /\ Calls(c, "send_photo")[1].res = "exc"

\* the WhatsApp adapter of job c has returned or was never to run
WhatsAppOver(c) == pc[c] \in {"tg", "enter", "send", "done", "raised"}

\* C20: the WhatsApp adapter's outcome: once _send_whatsapp_alert is over in
\* a job of a service with WhatsApp enabled it has returned True or False,
\* True if and only if the job's upload succeeded and its one GET was
\* answered with status 200 (False after a failed upload, any other status
\* or a transport error), and a job ends by an exception only through the
\* Telegram test of a service without token, never through the adapter.
C20_WhatsAppOutcome ==
    \A c \in Events :
       /\ waOutcome[c] = "True" <=>
             /\ Len(Calls(c, "upload")) = 1 /\ Calls(c, "upload")[1].res = "ok"
             /\ Len(Calls(c, "get")) = 1 /\ Calls(c, "get")[1].res = "200"
       /\ waOutcome[c] \in {"none", "True", "False"}
       /\ (whatsapp_enabled /\ WhatsAppOver(c)) => waOutcome[c] # "none"
       /\ waOutcome[c] # "none" => (whatsapp_enabled /\ WhatsAppOver(c))
       /\ pc[c] = "raised" => telegram_bot = "unset"

\* after a successful upload the GET was answered 204: the outcome is False
\* and the job went on to its end
C20_Witness ==
    \E c \in Events :
       /\ pc[c] = "done"
       /\ Calls(c, "upload") # <<>> /\ Calls(c, "upload")[1].res = "ok"
       /\ Calls(c, "get") # <<>> /\ Calls(c, "get")[1].res = "204"
       /\ waOutcome[c] = "False"

C19_PersistedFirst ==
    \A c \in Events :
       /\ pc[c] # "none" => (ret[c] = "True" /\ image_path[c] # 0)
       /\ log[c] # <<>> => image_path[c] # 0
       /\ (image_path[c] # 0 /\ faults = MaxFaults) => image_path[c] \in files
       /\ tgOutcome[c] = "False" => Calls(c, "send_photo") = <<>>

C19_FrameStep ==
    /\ \A c \in Events :
          /\ image_path[c] # 0 => image_path'[c] = image_path[c]
          /\ (image_path[c] = 0 /\ image_path'[c] # 0) =>
                /\ c = nCalls + 1
                /\ image_path'[c] \in files'
                /\ pc[c] = "none" /\ log'[c] = <<>>
          /\ (pc[c] = "tg" /\ pc'[c] # "tg" /\ telegram_bot = "bot"
                /\ image_path[c] \notin files) =>
                   /\ tgOutcome'[c] = "False"
                   /\ pc'[c] = "done"
                   /\ log'[c] = log[c]
    /\ ~(files \subseteq files') => external_delete

\* C19: the frame of an accepted event is written once, by its send_alert
\* call and before the event's job exists, let alone calls an adapter; the
\* event keeps that file name for good; no step of the service (send_alert,
\* the jobs, failed calls, cleanup, __del__) removes a file from the storage
\* directory, only something outside it does; and a bot adapter that finds
\* its file missing returns False at once, having made no send.
C19_FramePersistence == []C19_PersistedFirst /\ [][C19_FrameStep]_vars

\* the file of an accepted event was removed from outside before its job
\* reached the bot adapter: the adapter returned False and sent nothing
C19_Witness ==
    \E c \in Events :
       /\ ret[c] = "True" /\ image_path[c] # 0
       /\ image_path[c] \notin files
       /\ pc[c] = "done"
       /\ tgOutcome[c] = "False"
       /\ Calls(c, "send_photo") = <<>>

====
